---- MODULE Spec2Model ----
(***************************************************************************)
(* The CSV spread recorder of fx-collector                                 *)
(* (internal/adapters/storage/csv_spread_recorder.go) under concurrent     *)
(* callers.  Files hold rows, a bufio.Writer holds the rows not yet        *)
(* written, and every file-system call may fail.                           *)
(***************************************************************************)
EXTENDS Integers, Sequences, FiniteSets, TLC

\* ---------------------------------------------------------------- bounds
\* Observations submitted to Record/RecordBatch over a whole run.
MaxRecords == 3
\* Longest slice handed to RecordBatch.
MaxBatch == 2
\* Rows a bufio.Writer holds before a further write makes it flush.
BufCap == 2
\* Goroutines calling the recorder at the same time.
NumCallers == 2
\* File-system calls that fail over a whole run.
MaxFaults == 1

\* ------------------------------------------------------- text formatting
Digit(n) == SubSeq("0123456789", n + 1, n + 1)

Pad2(n) == Digit((n \div 10) % 10) \o Digit(n % 10)

Pad4(n) == Pad2(n \div 100) \o Pad2(n % 100)

RECURSIVE Itoa(_)
Itoa(n) == IF n < 0 THEN "-" \o Itoa(-n)
           ELSE IF n < 10 THEN Digit(n)
           ELSE Itoa(n \div 10) \o Digit(n % 10)

RECURSIVE Pow10(_)
Pow10(k) == IF k <= 0 THEN 1 ELSE 10 * Pow10(k - 1)

\* n written with exactly w digits
RECURSIVE PadN(_, _)
PadN(n, w) == IF w <= 0 THEN "" ELSE PadN(n \div 10, w - 1) \o Digit(n % 10)

RECURSIVE TrimZeros(_)
TrimZeros(s) == IF Len(s) > 0 /\ SubSeq(s, Len(s), Len(s)) = "0"
                THEN TrimZeros(SubSeq(s, 1, Len(s) - 1))
                ELSE s

\* time.Time.Format("20060102")
FormatDate(ts) == Pad4(ts.year) \o Pad2(ts.month) \o Pad2(ts.day)

\* time.Time.Format("15")
FormatHour(ts) == Pad2(ts.hour)

\* time.Time.Format(time.RFC3339Nano) of a UTC time: the fraction loses its
\* trailing zeros and is left out when it is zero.
FormatRFC3339Nano(ts) ==
    Pad4(ts.year) \o "-" \o Pad2(ts.month) \o "-" \o Pad2(ts.day) \o "T"
    \o Pad2(ts.hour) \o ":" \o Pad2(ts.min) \o ":" \o Pad2(ts.sec)
    \o (IF ts.nsec = 0 THEN "" ELSE "." \o TrimZeros(PadN(ts.nsec, 9)))
    \o "Z"

\* ---------------------------------------------------------------- prices
\* A price is a fixed-point number: an integer count of 10^-Scale.
Scale == 6

Abs(x) == IF x < 0 THEN -x ELSE x

Sign(x) == IF x < 0 THEN -1 ELSE 1

\* math.Round(x / unit): half away from zero
RoundHalfAway(x, unit) == Sign(x) * ((2 * Abs(x) + unit) \div (2 * unit))

\* strconv's rounding of the exact value: half to even
RoundHalfEven(x, unit) ==
    LET q == Abs(x) \div unit
        r == Abs(x) % unit
    IN  Sign(x) * (IF 2 * r > unit \/ (2 * r = unit /\ q % 2 = 1) THEN q + 1 ELSE q)

\* No rounding before the text is made.
roundPriceNone(price, decimals) == price

roundPrice(price, decimals) ==
    IF decimals <= 0 THEN price
    ELSE LET d == IF decimals > Scale THEN Scale ELSE decimals
         IN  RoundHalfAway(price, Pow10(Scale - d)) * Pow10(Scale - d)

\* strconv.FormatFloat(x, 'f', prec, 64): prec fractional digits, or with
\* prec < 0 the shortest text that reads back as x.
FormatFloat(x, prec) ==
    LET neg == IF x < 0 THEN "-" ELSE ""
    IN  IF prec < 0
        THEN LET frac == TrimZeros(PadN(Abs(x) % Pow10(Scale), Scale))
             IN  neg \o Itoa(Abs(x) \div Pow10(Scale))
                 \o (IF frac = "" THEN "" ELSE "." \o frac)
        ELSE LET d == IF prec > Scale THEN Scale ELSE prec
                 q == Abs(RoundHalfEven(x, Pow10(Scale - d)))
             IN  neg \o Itoa(q \div Pow10(d))
                 \o (IF prec = 0 THEN "" ELSE "." \o PadN(q % Pow10(d), d)
                                               \o PadN(0, prec - d))

\* FormatFloat of roundPrice(price, decimals): math.Round gives a negative
\* zero for a negative price that rounds to zero, and the text keeps its sign.
FormatRounded(price, decimals) ==
    IF price < 0 /\ roundPrice(price, decimals) = 0
    THEN "-" \o FormatFloat(0, decimals)
    ELSE FormatFloat(roundPrice(price, decimals), decimals)

\* ---------------------------------------------------------------- inputs
Tickers == {"EUR", "EURUSD"}

Time(d, h, mi, s, ns) ==
    [year |-> 2025, month |-> 11, day |-> d, hour |-> h, min |-> mi, sec |-> s, nsec |-> ns]

\* Two times of one hour and the first instant of the next hour.
LastOfHour == Time(18, 14, 59, 59, 999000000)

Times == { Time(18, 14, 0, 0, 0), LastOfHour, Time(18, 15, 0, 0, 0) }

\* domain.PriceData
PriceData(ticker, ts) ==
    [Timestamp |-> ts,
     Uic       |-> IF ticker = "EURUSD" THEN 21 ELSE 42,
     Ticker    |-> ticker,
     AssetType |-> "FxSpot",
     Bid       |-> 1100005,
     Ask       |-> 1100025,
     Spread    |-> 20,
     Decimals  |-> IF ticker = "EURUSD" THEN 4 ELSE 0]

\* EURUSD at every time, and EUR, whose name begins EURUSD's, at one of them.
Observations == { PriceData("EURUSD", ts) : ts \in Times } \cup { PriceData("EUR", LastOfHour) }

BatchesOf(S) == UNION { [1..n -> S] : n \in 0..MaxBatch }

Batches == BatchesOf(Observations)

\* Prices around the ties of two and of four decimals, of either sign.
Prices == { 1100005, 1100050, 1100150, 1105000, 1099999, 1099950, -1100050, -1100049 }

\* A spread that rounds to zero from below, and one on a tie.
Spreads == { -10, 25 }

DecimalsSet == { -1, 0, 2, 4, 7 }

\* EURUSD observations of one time over the prices and the decimals.
FormatObservations ==
    { [PriceData("EURUSD", Time(18, 14, 0, 0, 0)) EXCEPT
          !.Bid = x, !.Ask = x + sp, !.Spread = sp, !.Decimals = d]
      : x \in Prices, sp \in Spreads, d \in DecimalsSet }

\* ------------------------------------------------------------ file names
BaseDir == "data/spreads"

\* A key without the hour.
PartitionKeyNoHour(ticker, ts) == ticker \o "_" \o FormatDate(ts)

\* key := fmt.Sprintf("%s_%s_%s", ticker, dateStr, hourStr)
PartitionKey(ticker, ts) == ticker \o "_" \o FormatDate(ts) \o "_" \o FormatHour(ts)

\* dirPath := filepath.Join(r.baseDir, dateStr)
DirPath(ts) == BaseDir \o "/" \o FormatDate(ts)

\* filePath := filepath.Join(dirPath, fmt.Sprintf("%s_%s.csv", ticker, hourStr))
FilePath(ticker, ts) == DirPath(ts) \o "/" \o ticker \o "_" \o FormatHour(ts) \o ".csv"

AllPaths == { FilePath(t, ts) : t \in Tickers, ts \in Times }

HeaderRow == <<"timestamp", "uic", "ticker", "asset_type", "bid", "ask", "spread">>

\* The row Record and RecordBatch build from one observation.
RecordRow(data) ==
    << FormatRFC3339Nano(data.Timestamp), Itoa(data.Uic), data.Ticker, data.AssetType,
       FormatRounded(data.Bid, data.Decimals), FormatRounded(data.Ask, data.Decimals),
       FormatRounded(data.Spread, data.Decimals) >>

\* ----------------------------------------------------------------- state
VARIABLES
    writers,      \* r.writers: the keys with a csv.Writer (it writes into buffers[key])
    buffers,      \* r.buffers: key -> [pending: rows not yet written, err: bufio's sticky error]
    files,        \* r.files: key -> [path, open]
    mu,           \* r.mu is locked
    disk,         \* file system: path -> rows of the file
    dirs,         \* file system: directories that exist
    fds,          \* operating system: path -> descriptors this process has open on it
    call,         \* per caller: where it is in its call, the call's locals, and (history)
                  \* the recorder as a RecordBatch found it
    hist,         \* history: the observations submitted, in lock order, with their outcome
    faults,       \* history: the file-system calls that have failed so far
    lost,         \* history: the paths of the files a write to which has failed
    inputs,       \* the observations the callers submit in this behaviour
    cs,           \* CollectorService: ctx, stopFlush, flushTicker and the ticker's channel
    wsClient,     \* the websocket client: its connection and its price update channel
    task,         \* where Start/Stop's caller and the two goroutines are
    events        \* history: what the collector service has done, in order

svcVars == <<cs, wsClient, task, events>>

vars == <<writers, buffers, files, mu, disk, dirs, fds, call, hist, faults, lost, inputs,
          cs, wsClient, task, events>>

Idle == [pc |-> "idle", op |-> "none", data |-> <<>>, i |-> 0, base |-> 0,
         todo |-> {}, err |-> FALSE, start |-> <<>>]

EmptyMap == [k \in {} |-> 0]

\* NewCSVSpreadRecorder on an empty base directory, no call under way.
NewCSVSpreadRecorder ==
    /\ writers = {}
    /\ buffers = EmptyMap
    /\ files = EmptyMap
    /\ mu = FALSE
    /\ disk = EmptyMap
    /\ dirs = {}
    /\ fds = [p \in AllPaths |-> 0]
    /\ hist = <<>>
    /\ lost = {}

\* NewCollectorService: ctx is not cancelled, stopFlush is open, there is no
\* flushTicker yet, the websocket client is not connected, nothing runs.
NewCollectorService ==
    /\ cs = [ctxDone |-> FALSE, stopFlush |-> "open", flushTicker |-> "nil", tick |-> FALSE]
    /\ wsClient = [st |-> "new", queue |-> <<>>, closed |-> FALSE, sent |-> 0]
    /\ task = [main |-> "idle", proc |-> "none", flush |-> "none", update |-> <<>>,
               late |-> FALSE, dropped |-> 0, stops |-> 0]
    /\ events = <<>>

\* File system calls fail for a single caller; callers race on a file system
\* that works (no budget of failures is left).
Init ==
    /\ \/ /\ call = [p \in {1} |-> Idle]
          /\ faults = 0
       \/ /\ call = [p \in 1..NumCallers |-> Idle]
          /\ faults = MaxFaults
    /\ inputs = Observations
    /\ NewCSVSpreadRecorder
    /\ NewCollectorService

\* One caller that submits one observation of FormatObservations, again and
\* again, on a file system that works.
InitFormat ==
    /\ call = [p \in {1} |-> Idle]
    /\ faults = MaxFaults
    /\ inputs \in { {o} : o \in FormatObservations }
    /\ NewCSVSpreadRecorder
    /\ NewCollectorService

\* The recorder and the file system as one value, for the operators below.
Rec == [writers |-> writers, buffers |-> buffers, files |-> files, disk |-> disk,
        dirs |-> dirs, fds |-> fds, faults |-> faults, lost |-> lost]

Install(R) ==
    /\ writers' = R.writers
    /\ buffers' = R.buffers
    /\ files' = R.files
    /\ disk' = R.disk
    /\ dirs' = R.dirs
    /\ fds' = R.fds
    /\ faults' = R.faults
    /\ lost' = R.lost

Restrict(f, S) == [x \in S |-> f[x]]

Extend(f, k, v) == [x \in DOMAIN f \cup {k} |-> IF x = k THEN v ELSE f[x]]

\* ------------------------------------------------------ bufio and os.File
\* bufio.Writer.Flush of key k's buffer into its file: how many of the pending
\* rows the file may take.  Fewer than all of them is a failed write.
FlushChoices(R, k) ==
    LET b == R.buffers[k]
    IN  IF b.err \/ b.pending = <<>> \/ ~R.files[k].open THEN {0}
        ELSE IF R.faults >= MaxFaults THEN {Len(b.pending)}
        ELSE 0..Len(b.pending)

FlushOk(R, k, n) == ~R.buffers[k].err /\ n = Len(R.buffers[k].pending)

\* A flush that empties the buffer and writes nothing.
FlushBufDrop(R, k, n) == [R EXCEPT !.buffers[k].pending = <<>>]

\* The flush in which the file takes n rows; a failure stays in the buffer as
\* its sticky error.
FlushBuf(R, k, n) ==
    LET b == R.buffers[k]
        path == R.files[k].path
    IN  [R EXCEPT !.disk = IF n = 0 THEN @
                           ELSE [@ EXCEPT ![path] = @ \o SubSeq(b.pending, 1, n)],
                  !.buffers[k] = [pending |-> SubSeq(b.pending, n + 1, Len(b.pending)),
                                  err |-> ~FlushOk(R, k, n)],
                  !.faults = IF ~b.err /\ R.files[k].open /\ n < Len(b.pending) THEN @ + 1 ELSE @,
                  !.lost = IF FlushOk(R, k, n) THEN @ ELSE @ \cup {path}]

\* csv.Writer.Write(row) on key k: the results [R, ok].  The row goes into the
\* buffer; a full buffer is flushed first, and the write fails when that flush
\* fails or the buffer already holds an error.
WriteRow(R, k, row) ==
    LET b == R.buffers[k]
    IN  IF b.err THEN {[R |-> R, ok |-> FALSE]}
        ELSE IF Len(b.pending) < BufCap
        THEN {[R |-> [R EXCEPT !.buffers[k].pending = Append(@, row)], ok |-> TRUE]}
        ELSE { LET F == FlushBuf(R, k, n)
               IN  IF FlushOk(R, k, n)
                   THEN [R |-> [F EXCEPT !.buffers[k].pending = <<row>>], ok |-> TRUE]
                   ELSE [R |-> F, ok |-> FALSE]
               : n \in FlushChoices(R, k) }

\* os.File.Close on key k's file: the descriptor is given back; closing a
\* closed file changes nothing.
CloseFile(R, k) ==
    LET f == R.files[k]
    IN  IF f.open
        THEN [R EXCEPT !.files[k].open = FALSE, !.fds[f.path] = @ - 1]
        ELSE R

\* -------------------------------------------------------------- getWriter
\* The cleanup loop left out: no old key is closed.
NoOldKeys(R, ticker, key) == {}

\* The keys the cleanup loop of getWriter closes: those that begin with the
\* ticker and are not the new key.
OldKeys(R, ticker, key) ==
    { k \in R.writers : Len(k) > Len(ticker) /\ SubSeq(k, 1, Len(ticker)) = ticker /\ k # key }

\* The cleanup loop deleting the key without closing its file.
EvictNoClose(R, k, n) ==
    LET C == FlushBuf(R, k, n)
    IN  [C EXCEPT !.writers = @ \ {k},
                  !.buffers = Restrict(@, DOMAIN @ \ {k}),
                  !.files = Restrict(@, DOMAIN @ \ {k})]

\* The cleanup loop closing the file without flushing what is buffered.
EvictNoFlush(R, k, n) ==
    LET C == CloseFile(R, k)
    IN  [C EXCEPT !.writers = @ \ {k},
                  !.buffers = Restrict(@, DOMAIN @ \ {k}),
                  !.files = Restrict(@, DOMAIN @ \ {k})]

\* The cleanup loop keeping the key whose flush has failed.
EvictKeepFailed(R, k, n) ==
    LET F == FlushBuf(R, k, n)
        C == CloseFile(F, k)
    IN  IF FlushOk(R, k, n)
        THEN [C EXCEPT !.writers = @ \ {k},
                       !.buffers = Restrict(@, DOMAIN @ \ {k}),
                       !.files = Restrict(@, DOMAIN @ \ {k})]
        ELSE F

\* One turn of the cleanup loop: flush the old writer and buffer (the file
\* takes n rows), close the file, delete the key from the three maps.  Errors
\* are logged only.
EvictKey(R, k, n) ==
    LET C == CloseFile(FlushBuf(R, k, n), k)
    IN  [C EXCEPT !.writers = @ \ {k},
                  !.buffers = Restrict(@, DOMAIN @ \ {k}),
                  !.files = Restrict(@, DOMAIN @ \ {k})]

RECURSIVE EvictAll(_, _, _)
EvictAll(R, old, c) ==
    IF old = {} THEN R
    ELSE LET k == CHOOSE x \in old : TRUE
         IN  EvictAll(EvictKey(R, k, c[k]), old \ {k}, c)

\* What the cleanup loop may leave: one result per way the flushes can go.
Cleanup(R, ticker, key) ==
    LET old == OldKeys(R, ticker, key)
    IN  { E \in { EvictAll(R, old, c) :
                    c \in { f \in [old -> 0..BufCap] :
                              \A k \in old : f[k] \in FlushChoices(R, k) } } :
            E.faults <= MaxFaults }

\* Opening a file with O_TRUNC in place of O_APPEND: what an existing file
\* held is gone.
OpenNewTruncate(R, key, path) ==
    LET fileExists == path \in DOMAIN R.disk
        O == [R EXCEPT !.disk = Extend(@, path, <<>>),
                       !.fds[path] = @ + 1,
                       !.buffers = Extend(@, key, [pending |-> <<>>, err |-> FALSE]),
                       !.files = Extend(@, key, [path |-> path, open |-> TRUE]),
                       !.writers = @ \cup {key}]
    IN  IF fileExists THEN {[R |-> O, ok |-> TRUE]}
        ELSE {[R |-> w.R, ok |-> TRUE] : w \in WriteRow(O, key, HeaderRow)}

\* Opening a file with the header written whether or not the file existed.
OpenNewAlwaysHeader(R, key, path) ==
    LET O == [R EXCEPT !.disk = IF path \in DOMAIN @ THEN @ ELSE Extend(@, path, <<>>),
                       !.fds[path] = @ + 1,
                       !.buffers = Extend(@, key, [pending |-> <<HeaderRow>>, err |-> FALSE]),
                       !.files = Extend(@, key, [path |-> path, open |-> TRUE]),
                       !.writers = @ \cup {key}]
    IN  {[R |-> O, ok |-> TRUE]}

\* os.OpenFile(path, O_APPEND|O_CREATE|O_WRONLY), bufio.NewWriter, csv.NewWriter
\* and the header of a file that did not exist: the results [R, ok].
OpenNew(R, key, path) ==
    LET fileExists == path \in DOMAIN R.disk
        O == [R EXCEPT !.disk = IF fileExists THEN @ ELSE Extend(@, path, <<>>),
                       !.fds[path] = @ + 1,
                       !.buffers = Extend(@, key, [pending |-> <<>>, err |-> FALSE]),
                       !.files = Extend(@, key, [path |-> path, open |-> TRUE])]
        Register(S) == [S EXCEPT !.writers = @ \cup {key}]
        Abandon(S) == [CloseFile(S, key) EXCEPT !.buffers = Restrict(@, DOMAIN @ \ {key}),
                                                !.files = Restrict(@, DOMAIN @ \ {key})]
    IN  IF fileExists THEN {[R |-> Register(O), ok |-> TRUE]}
        ELSE { IF w.ok THEN [R |-> Register(w.R), ok |-> TRUE]
                       ELSE [R |-> Abandon(w.R), ok |-> FALSE]
               : w \in WriteRow(O, key, HeaderRow) }

\* A getWriter that tries os.MkdirAll and os.OpenFile a second time when
\* they fail.
OpenPartitionRetry(R, ticker, ts) ==
    LET key == PartitionKey(ticker, ts)
    IN  UNION {
               LET D == [E EXCEPT !.dirs = @ \cup {DirPath(ts)}]
                   Again == IF E.faults < MaxFaults
                            THEN OpenNew([D EXCEPT !.faults = @ + 1], key,
                                         FilePath(ticker, ts))
                            ELSE {}
               IN  Again \cup OpenNew(D, key, FilePath(ticker, ts))
               : E \in Cleanup(R, ticker, key) }

\* A getWriter that acquires the directory and the file before it cleans up:
\* when they fail, the old keys are as they were.
OpenPartitionAcquireFirst(R, ticker, ts) ==
    LET key == PartitionKey(ticker, ts)
        Failed == IF R.faults < MaxFaults
                  THEN {[R |-> [R EXCEPT !.faults = @ + 1], ok |-> FALSE]}
                  ELSE {}
    IN  Failed \cup
        UNION { OpenNew([E EXCEPT !.dirs = @ \cup {DirPath(ts)}], key, FilePath(ticker, ts))
                : E \in Cleanup(R, ticker, key) }

\* getWriter past its first return: the cleanup loop, os.MkdirAll, os.Stat,
\* os.OpenFile, the header, the three maps.  The results [R, ok].
OpenPartition(R, ticker, ts) ==
    LET key == PartitionKey(ticker, ts)
    IN  UNION {
               LET D == [E EXCEPT !.dirs = @ \cup {DirPath(ts)}]
                   Failed(S) == IF E.faults < MaxFaults
                                THEN {[R |-> [S EXCEPT !.faults = @ + 1], ok |-> FALSE]}
                                ELSE {}
               IN  Failed(E)                                   \* os.MkdirAll fails
                   \cup Failed(D)                              \* os.OpenFile fails
                   \cup OpenNew(D, key, FilePath(ticker, ts))
               : E \in Cleanup(R, ticker, key) }

\* getWriter without its first return: a registered key is opened again.
getWriterNoLookup(R, ticker, ts) == OpenPartition(R, ticker, ts)

\* getWriter(ticker, timestamp): the results [R, ok]; with ok the writer of
\* PartitionKey(ticker, timestamp) is registered in R.
getWriter(R, ticker, ts) ==
    IF PartitionKey(ticker, ts) \in R.writers THEN {[R |-> R, ok |-> TRUE]}
    ELSE OpenPartition(R, ticker, ts)

\* The body of Record, and of one turn of RecordBatch's loop: the results [R, ok].
RecordOne(R, data) ==
    UNION { IF g.ok
            THEN WriteRow(g.R, PartitionKey(data.Ticker, data.Timestamp), RecordRow(data))
            ELSE {g}
            : g \in getWriter(R, data.Ticker, data.Timestamp) }

\* --------------------------------------------------------------- callers
fsVars == <<writers, buffers, files, disk, dirs, fds, faults, lost>>

Queued(p, batch) ==
    [j \in 1..Len(batch) |->
        [key |-> PartitionKey(batch[j].Ticker, batch[j].Timestamp),
         row |-> RecordRow(batch[j]), st |-> "queued"]]

Return(p, failed) == call' = [call EXCEPT ![p].pc = "ret", ![p].err = failed]

\* A lock that lets a caller in while it is held.
LockNoWait(p) ==
    /\ call[p].pc = "idle"
    /\ mu' = TRUE

\* A goroutine calls one of the four methods: r.mu.Lock().  The call waits
\* for as long as this step is not enabled.
Lock(p) ==
    /\ call[p].pc = "idle"
    /\ ~mu
    /\ mu' = TRUE

\* Record(ctx, data), from the lock to the first statement
BeginRecord(p) ==
    /\ Lock(p)
    /\ \E data \in inputs :
          /\ Len(hist) + 1 <= MaxRecords
          /\ call' = [call EXCEPT ![p] = [Idle EXCEPT !.pc = "record", !.op = "Record",
                                          !.data = <<data>>, !.i = 1, !.base = Len(hist)]]
          /\ hist' = hist \o Queued(p, <<data>>)
    /\ UNCHANGED fsVars

\* Record: getWriter, the row, writer.Write
Record(p) ==
    /\ call[p].pc = "record"
    /\ \E o \in RecordOne(Rec, call[p].data[1]) :
          /\ Install(o.R)
          /\ hist' = [hist EXCEPT ![call[p].base + 1].st = IF o.ok THEN "ok" ELSE "err"]
          /\ Return(p, ~o.ok)
    /\ UNCHANGED mu

\* RecordBatch(ctx, data), from the lock to the loop
BeginRecordBatch(p) ==
    /\ Lock(p)
    /\ \E data \in BatchesOf(inputs) :
          /\ Len(hist) + Len(data) <= MaxRecords
          /\ call' = [call EXCEPT ![p] = [Idle EXCEPT !.pc = "batch", !.op = "RecordBatch",
                                          !.data = data, !.i = 1, !.base = Len(hist),
                                          !.start = <<Rec>>]]
          /\ hist' = hist \o Queued(p, data)
    /\ UNCHANGED fsVars

\* RecordBatch going on to the next element after one that failed.
RecordBatchContinue(p) ==
    /\ call[p].pc = "batch"
    /\ \/ /\ call[p].i <= Len(call[p].data)
          /\ \E o \in RecordOne(Rec, call[p].data[call[p].i]) :
                /\ Install(o.R)
                /\ hist' = [hist EXCEPT ![call[p].base + call[p].i].st =
                                            IF o.ok THEN "ok" ELSE "err"]
                /\ call' = [call EXCEPT ![p].i = @ + 1, ![p].err = @ \/ ~o.ok]
       \/ /\ call[p].i > Len(call[p].data)
          /\ call' = [call EXCEPT ![p].pc = "ret"]
          /\ UNCHANGED <<fsVars, hist>>
    /\ UNCHANGED mu

\* RecordBatch: one turn of the loop, or its end
RecordBatch(p) ==
    /\ call[p].pc = "batch"
    /\ \/ /\ call[p].i <= Len(call[p].data)
          /\ \E o \in RecordOne(Rec, call[p].data[call[p].i]) :
                /\ Install(o.R)
                /\ hist' = [hist EXCEPT ![call[p].base + call[p].i].st =
                                            IF o.ok THEN "ok" ELSE "err"]
                /\ IF o.ok THEN call' = [call EXCEPT ![p].i = @ + 1]
                           ELSE Return(p, TRUE)
       \/ /\ call[p].i > Len(call[p].data)
          /\ Return(p, FALSE)
          /\ UNCHANGED <<fsVars, hist>>
    /\ UNCHANGED mu

\* Flush(ctx), from the lock to the loop over r.writers
BeginFlush(p) ==
    /\ Lock(p)
    /\ call' = [call EXCEPT ![p] = [Idle EXCEPT !.pc = "flush", !.op = "Flush",
                                    !.todo = writers]]
    /\ UNCHANGED <<fsVars, hist>>

\* A Flush that closes and deletes what it has flushed.
FlushAndEvict(p) ==
    /\ call[p].pc = "flush"
    /\ \/ \E k \in call[p].todo : \E n \in FlushChoices(Rec, k) :
             /\ Install(EvictKey(Rec, k, n))
             /\ IF FlushOk(Rec, k, n)
                THEN call' = [call EXCEPT ![p].todo = @ \ {k}]
                ELSE call' = [call EXCEPT ![p].todo = @ \ {k}, ![p].pc = "ret", ![p].err = TRUE]
       \/ /\ call[p].todo = {}
          /\ Return(p, FALSE)
          /\ UNCHANGED fsVars
    /\ UNCHANGED <<mu, hist>>

\* Flush: one turn of the loop (writer.Flush, writer.Error, buf.Flush), in
\* the map's order, or its end
Flush(p) ==
    /\ call[p].pc = "flush"
    /\ \/ \E k \in call[p].todo : \E n \in FlushChoices(Rec, k) :
             /\ Install(FlushBuf(Rec, k, n))
             /\ IF FlushOk(Rec, k, n)
                THEN call' = [call EXCEPT ![p].todo = @ \ {k}]
                ELSE call' = [call EXCEPT ![p].todo = @ \ {k}, ![p].pc = "ret", ![p].err = TRUE]
       \/ /\ call[p].todo = {}
          /\ Return(p, FALSE)
          /\ UNCHANGED fsVars
    /\ UNCHANGED <<mu, hist>>

\* Close(), from the lock to the loop over r.writers
BeginClose(p) ==
    /\ Lock(p)
    /\ call' = [call EXCEPT ![p] = [Idle EXCEPT !.pc = "closeWriters", !.op = "Close",
                                    !.todo = writers]]
    /\ UNCHANGED <<fsVars, hist>>

\* Close: the loop that flushes the writers
CloseWriters(p) ==
    /\ call[p].pc = "closeWriters"
    /\ \/ \E k \in call[p].todo : \E n \in FlushChoices(Rec, k) :
             /\ Install(FlushBuf(Rec, k, n))
             /\ IF FlushOk(Rec, k, n)
                THEN call' = [call EXCEPT ![p].todo = @ \ {k}]
                ELSE call' = [call EXCEPT ![p].todo = @ \ {k}, ![p].pc = "ret", ![p].err = TRUE]
       \/ /\ call[p].todo = {}
          /\ call' = [call EXCEPT ![p].pc = "closeBuffers", ![p].todo = DOMAIN buffers]
          /\ UNCHANGED fsVars
    /\ UNCHANGED <<mu, hist>>

\* Close: the loop that flushes the buffers
CloseBuffers(p) ==
    /\ call[p].pc = "closeBuffers"
    /\ \/ \E k \in call[p].todo : \E n \in FlushChoices(Rec, k) :
             /\ Install(FlushBuf(Rec, k, n))
             /\ IF FlushOk(Rec, k, n)
                THEN call' = [call EXCEPT ![p].todo = @ \ {k}]
                ELSE call' = [call EXCEPT ![p].todo = @ \ {k}, ![p].pc = "ret", ![p].err = TRUE]
       \/ /\ call[p].todo = {}
          /\ call' = [call EXCEPT ![p].pc = "closeFiles", ![p].todo = DOMAIN files]
          /\ UNCHANGED fsVars
    /\ UNCHANGED <<mu, hist>>

\* Close: the loop that closes the files, then the three fresh maps
CloseFiles(p) ==
    /\ call[p].pc = "closeFiles"
    /\ \/ \E k \in call[p].todo, closeErr \in BOOLEAN :
             /\ ~files[k].open => closeErr
             /\ files[k].open /\ closeErr => faults < MaxFaults
             /\ Install([CloseFile(Rec, k) EXCEPT
                            !.faults = IF files[k].open /\ closeErr THEN @ + 1 ELSE @])
             /\ IF closeErr
                THEN call' = [call EXCEPT ![p].todo = @ \ {k}, ![p].pc = "ret", ![p].err = TRUE]
                ELSE call' = [call EXCEPT ![p].todo = @ \ {k}]
       \/ /\ call[p].todo = {}
          /\ Install([Rec EXCEPT !.writers = {}, !.buffers = EmptyMap, !.files = EmptyMap])
          /\ Return(p, FALSE)
    /\ UNCHANGED <<mu, hist>>

\* A return that leaves r.mu locked when the method returns an error.
UnlockUnlessError(p) ==
    /\ call[p].pc = "ret"
    /\ mu' = call[p].err
    /\ call' = [call EXCEPT ![p] = Idle]
    /\ UNCHANGED <<fsVars, hist>>

\* return, and the deferred r.mu.Unlock()
Unlock(p) ==
    /\ call[p].pc = "ret"
    /\ mu' = FALSE
    /\ call' = [call EXCEPT ![p] = Idle]
    /\ UNCHANGED <<fsVars, hist>>

Next ==
    /\ \E p \in DOMAIN call :
          \/ BeginRecord(p)
          \/ Record(p)
          \/ BeginRecordBatch(p)
          \/ RecordBatch(p)
          \/ BeginFlush(p)
          \/ Flush(p)
          \/ BeginClose(p)
          \/ CloseWriters(p)
          \/ CloseBuffers(p)
          \/ CloseFiles(p)
          \/ Unlock(p)
    /\ UNCHANGED <<inputs, svcVars>>

Spec == Init /\ [][Next]_vars

SpecFormat == InitFormat /\ [][Next]_vars

\* ==================================================== the collector service
\* The most price updates the websocket client delivers.
MaxUpdates == 2
\* The capacity of the price update channel.
ChanCap == 2
\* The most calls of Stop.
MaxStops == 2

\* cs.instruments
instruments ==
    [t \in {"EURUSD"} |-> [Ticker |-> t, Uic |-> 21, AssetType |-> "FxSpot", Decimals |-> 4]]

\* saxo.PriceUpdate
PriceUpdate(ticker, ts) == [Ticker |-> ticker, Timestamp |-> ts, Bid |-> 1100005, Ask |-> 1100025]

\* EURUSD in two hours, and a ticker cs.instruments does not hold.
Updates ==
    { PriceUpdate("EURUSD", Time(18, 14, 0, 0, 0)), PriceUpdate("EURUSD", Time(18, 15, 0, 0, 0)),
      PriceUpdate("GBPUSD", Time(18, 14, 0, 0, 0)) }

\* PriceData.CalculateSpread
CalculateSpread(data) == [data EXCEPT !.Spread = data.Ask - data.Bid]

\* mapPriceUpdate with every update taken for a known instrument's.
mapPriceUpdateAny(update) ==
    [ok |-> TRUE, data |-> PriceData("EURUSD", update.Timestamp)]

\* mapPriceUpdate: [ok, data]
mapPriceUpdate(update) ==
    IF update.Ticker \notin DOMAIN instruments
    THEN [ok |-> FALSE, data |-> <<>>]
    ELSE LET instrument == instruments[update.Ticker]
         IN  [ok |-> TRUE,
              data |-> CalculateSpread([Timestamp |-> update.Timestamp,
                                        Uic       |-> instrument.Uic,
                                        Ticker    |-> update.Ticker,
                                        AssetType |-> instrument.AssetType,
                                        Bid       |-> update.Bid,
                                        Ask       |-> update.Ask,
                                        Spread    |-> 0,
                                        Decimals  |-> instrument.Decimals])]

\* What the updates of known instruments map to.
Mapped == { mapPriceUpdate(u).data : u \in { v \in Updates : mapPriceUpdate(v).ok } }

\* A service just made, on a recorder just made.  Its caller and its two
\* goroutines are the recorder's callers; file system calls can fail.
InitService ==
    /\ call = [p \in {"main", "proc", "flush"} |-> Idle]
    /\ faults = 0
    /\ inputs = Mapped
    /\ NewCSVSpreadRecorder
    /\ NewCollectorService

Log(e) == events' = Append(events, e)

\* The recorder, its file system and its callers.
recVars == <<writers, buffers, files, mu, disk, dirs, fds, call, hist, faults, lost>>

\* --- Start
\* Start: authClient.IsAuthenticated / Login
StartLogin ==
    /\ task.main = "idle"
    /\ task.stops = 0
    /\ \E ok \in BOOLEAN : task' = [task EXCEPT !.main = IF ok THEN "connect" ELSE "failed"]
    /\ UNCHANGED <<cs, wsClient, events>>
    /\ UNCHANGED recVars

\* A Start that spawns both goroutines before it connects.
StartConnectSpawnsFirst ==
    /\ task.main = "connect"
    /\ cs' = [cs EXCEPT !.flushTicker = "running"]
    /\ \/ /\ wsClient' = [wsClient EXCEPT !.st = "connected"]
          /\ task' = [task EXCEPT !.main = "subscribe", !.proc = "select",
                                  !.flush = "select"]
       \/ /\ task' = [task EXCEPT !.main = "failed", !.proc = "select",
                                  !.flush = "select"]
          /\ UNCHANGED wsClient
    /\ UNCHANGED events
    /\ UNCHANGED recVars

\* Start: wsClient.Connect
StartConnect ==
    /\ task.main = "connect"
    /\ \/ /\ wsClient' = [wsClient EXCEPT !.st = "connected"]
          /\ task' = [task EXCEPT !.main = "subscribe"]
       \/ /\ task' = [task EXCEPT !.main = "failed"]
          /\ UNCHANGED wsClient
    /\ UNCHANGED <<cs, events>>
    /\ UNCHANGED recVars

\* Start: wsClient.SubscribeToPrices
StartSubscribe ==
    /\ task.main = "subscribe"
    /\ \/ /\ wsClient' = [wsClient EXCEPT !.st = "subscribed"]
          /\ task' = [task EXCEPT !.main = "spawn"]
       \/ /\ task' = [task EXCEPT !.main = "failed"]
          /\ UNCHANGED wsClient
    /\ UNCHANGED <<cs, events>>
    /\ UNCHANGED recVars

\* Start: go processPriceUpdates(), startPeriodicFlush() (the ticker and its
\* goroutine), return nil
StartTasks ==
    /\ task.main = "spawn"
    /\ cs' = [cs EXCEPT !.flushTicker = "running"]
    /\ task' = [task EXCEPT !.main = "running", !.proc = "select", !.flush = "select"]
    /\ UNCHANGED <<wsClient, events>>
    /\ UNCHANGED recVars

\* --- the websocket client and the ticker
\* The websocket client sends an update on its price update channel: one of
\* an unknown ticker, or one that maps to an observation of this behaviour.
Deliver ==
    /\ wsClient.st = "subscribed"
    /\ ~wsClient.closed
    /\ Len(wsClient.queue) < ChanCap
    /\ wsClient.sent < MaxUpdates
    /\ \E u \in Updates :
          /\ mapPriceUpdate(u).ok => mapPriceUpdate(u).data \in inputs
          /\ wsClient' = [wsClient EXCEPT !.queue = Append(@, u), !.sent = @ + 1]
    /\ UNCHANGED <<cs, task, events>>
    /\ UNCHANGED recVars

\* After the cancellation the websocket client goes on sending: whenever the
\* processing goroutine is back at its select and the channel is empty, a
\* further update (of an unknown ticker) is put into the channel, so that the
\* receive case is ready each time the select runs.
DeliverOn ==
    /\ cs.ctxDone
    /\ wsClient.sent = MaxUpdates
    /\ task.proc = "select"
    /\ wsClient.queue = <<>>
    /\ wsClient.st \in {"subscribed", "closed"}
    /\ ~wsClient.closed
    /\ Len(wsClient.queue) < ChanCap
    /\ \E u \in Updates :
          /\ ~mapPriceUpdate(u).ok
          /\ wsClient' = [wsClient EXCEPT !.queue = Append(@, u)]
    /\ UNCHANGED <<cs, task, events>>
    /\ UNCHANGED recVars

\* The websocket client closes its price update channel.
CloseChannel ==
    /\ wsClient.st = "subscribed"
    /\ ~wsClient.closed
    /\ wsClient' = [wsClient EXCEPT !.closed = TRUE]
    /\ UNCHANGED <<cs, task, events>>
    /\ UNCHANGED recVars

\* The running ticker sends on flushTicker.C, which holds one tick.
Tick ==
    /\ cs.flushTicker = "running"
    /\ ~cs.tick
    /\ cs' = [cs EXCEPT !.tick = TRUE]
    /\ UNCHANGED <<wsClient, task, events>>
    /\ UNCHANGED recVars

\* --- processPriceUpdates
\* A loop that only receives: its select has no ctx.Done() case.
ProcSelectNoDone ==
    /\ task.proc = "select"
    /\ \/ /\ wsClient.queue # <<>>
          /\ task' = [task EXCEPT !.proc = "map", !.update = <<Head(wsClient.queue)>>,
                                  !.late = cs.ctxDone]
          /\ wsClient' = [wsClient EXCEPT !.queue = Tail(@)]
       \/ /\ wsClient.queue = <<>>
          /\ wsClient.closed
          /\ task' = [task EXCEPT !.proc = "closed"]
          /\ UNCHANGED wsClient
    /\ UNCHANGED <<cs, events>>
    /\ UNCHANGED recVars

\* The select: one of its cases that can proceed, whichever.  ctx.Done() can
\* once ctx is cancelled; the receive can when the channel holds an update
\* (ok) or is closed and empty (!ok, return).
ProcSelect ==
    /\ task.proc = "select"
    /\ \/ /\ cs.ctxDone
          /\ task' = [task EXCEPT !.proc = "cancelled"]
          /\ UNCHANGED wsClient
       \/ /\ wsClient.queue # <<>>
          /\ task' = [task EXCEPT !.proc = "map", !.update = <<Head(wsClient.queue)>>,
                                  !.late = cs.ctxDone]
          /\ wsClient' = [wsClient EXCEPT !.queue = Tail(@)]
       \/ /\ wsClient.queue = <<>>
          /\ wsClient.closed
          /\ task' = [task EXCEPT !.proc = "closed"]
          /\ UNCHANGED wsClient
    /\ UNCHANGED <<cs, events>>
    /\ UNCHANGED recVars

\* mapPriceUpdate: an error is logged and the loop goes on
ProcMap ==
    /\ task.proc = "map"
    /\ IF mapPriceUpdate(task.update[1]).ok
       THEN task' = [task EXCEPT !.proc = "record"]
       ELSE task' = [task EXCEPT !.proc = "select", !.update = <<>>,
                                 !.dropped = IF @ < MaxUpdates THEN @ + 1 ELSE @]
    /\ UNCHANGED <<cs, wsClient, events>>
    /\ UNCHANGED recVars

\* spreadRecorder.Record(cs.ctx, priceData), called
ProcRecord ==
    /\ task.proc = "record"
    /\ BeginRecord("proc")
    /\ call'["proc"].data = <<mapPriceUpdate(task.update[1]).data>>
    /\ task' = [task EXCEPT !.proc = "recording"]
    /\ UNCHANGED <<cs, wsClient, events>>

\* A loop that returns when Record has returned an error.
ProcRecordedReturn ==
    /\ task.proc = "recording"
    /\ Unlock("proc")
    /\ task' = [task EXCEPT !.proc = IF call["proc"].err THEN "closed" ELSE "select",
                            !.update = <<>>]
    /\ UNCHANGED <<cs, wsClient, events>>

\* Record has returned: an error is logged, and the loop goes on
ProcRecorded ==
    /\ task.proc = "recording"
    /\ Unlock("proc")
    /\ task' = [task EXCEPT !.proc = "select", !.update = <<>>]
    /\ UNCHANGED <<cs, wsClient, events>>

\* --- startPeriodicFlush's goroutine
\* The select: one of its cases that can proceed, whichever
FlushSelect ==
    /\ task.flush = "select"
    /\ \/ /\ cs.ctxDone
          /\ task' = [task EXCEPT !.flush = "exit"]
          /\ UNCHANGED cs
       \/ /\ cs.stopFlush = "closed"
          /\ task' = [task EXCEPT !.flush = "exit"]
          /\ UNCHANGED cs
       \/ /\ cs.tick
          /\ cs' = [cs EXCEPT !.tick = FALSE]
          /\ task' = [task EXCEPT !.flush = "flush"]
    /\ UNCHANGED <<wsClient, events>>
    /\ UNCHANGED recVars

\* spreadRecorder.Flush(cs.ctx), called
FlushCall ==
    /\ task.flush = "flush"
    /\ BeginFlush("flush")
    /\ task' = [task EXCEPT !.flush = "flushing"]
    /\ UNCHANGED <<cs, wsClient, events>>

\* A flush goroutine that returns when Flush has returned an error.
FlushReturnExit ==
    /\ task.flush = "flushing"
    /\ Unlock("flush")
    /\ task' = [task EXCEPT !.flush = IF call["flush"].err THEN "exit" ELSE "select"]
    /\ UNCHANGED <<cs, wsClient, events>>

\* Flush has returned: an error is logged
FlushReturn ==
    /\ task.flush = "flushing"
    /\ Unlock("flush")
    /\ task' = [task EXCEPT !.flush = "select"]
    /\ UNCHANGED <<cs, wsClient, events>>

\* --- Stop
\* Stop with the final flush left out.
StopCancelNoFlush ==
    /\ task.main = "cancel"
    /\ cs' = [cs EXCEPT !.ctxDone = TRUE]
    /\ task' = [task EXCEPT !.main = "wsClose"]
    /\ Log("cancel")
    /\ UNCHANGED wsClient
    /\ UNCHANGED recVars

\* Stop in which a failed final flush is returned.
StopFlushedAbort ==
    /\ task.main = "flushing"
    /\ Unlock("main")
    /\ IF call["main"].err
       THEN /\ task' = [task EXCEPT !.main = "stopped"]
            /\ events' = events \o <<"flushFailed", "returnErr">>
       ELSE /\ task' = [task EXCEPT !.main = "wsClose"]
            /\ Log("flushed")
    /\ UNCHANGED <<cs, wsClient>>

\* Stop is called, by who called Start or instead of it.  With a ticker:
\* flushTicker.Stop() and close(cs.stopFlush); closing a closed channel panics.
StopTimer ==
    /\ task.main \in {"idle", "failed", "running", "stopped"}
    /\ task.stops < MaxStops
    /\ IF cs.flushTicker = "nil"
       THEN /\ task' = [task EXCEPT !.main = "cancel", !.stops = @ + 1]
            /\ Log("stop")
            /\ UNCHANGED cs
       ELSE IF cs.stopFlush = "closed"
       THEN /\ task' = [task EXCEPT !.main = "panic", !.stops = @ + 1]
            /\ events' = events \o <<"stop", "panic">>
            /\ UNCHANGED cs
       ELSE /\ task' = [task EXCEPT !.main = "cancel", !.stops = @ + 1]
            /\ cs' = [cs EXCEPT !.flushTicker = "stopped", !.stopFlush = "closed"]
            /\ events' = events \o <<"stop", "timer">>
    /\ UNCHANGED wsClient
    /\ UNCHANGED recVars

\* A Stop that waits for processPriceUpdates to return before it cancels ctx.
StopCancelJoins ==
    /\ task.main = "cancel"
    /\ task.proc \in {"none", "cancelled", "closed"}
    /\ cs' = [cs EXCEPT !.ctxDone = TRUE]
    /\ task' = [task EXCEPT !.main = "flush"]
    /\ Log("cancel")
    /\ UNCHANGED wsClient
    /\ UNCHANGED recVars

\* Stop: cs.cancel()
StopCancel ==
    /\ task.main = "cancel"
    /\ cs' = [cs EXCEPT !.ctxDone = TRUE]
    /\ task' = [task EXCEPT !.main = "flush"]
    /\ Log("cancel")
    /\ UNCHANGED wsClient
    /\ UNCHANGED recVars

\* A final Flush that gives up at once because its context is cancelled.
StopFlushChecksCtx ==
    /\ task.main = "flush"
    /\ Lock("main")
    /\ call' = [call EXCEPT !["main"] = [Idle EXCEPT !.pc = "ret", !.op = "Flush",
                                                     !.err = cs.ctxDone]]
    /\ UNCHANGED <<fsVars, hist>>
    /\ task' = [task EXCEPT !.main = "flushing"]
    /\ Log("flush")
    /\ UNCHANGED <<cs, wsClient>>

\* Stop: spreadRecorder.Flush(cs.ctx), called
StopFlush ==
    /\ task.main = "flush"
    /\ BeginFlush("main")
    /\ task' = [task EXCEPT !.main = "flushing"]
    /\ Log("flush")
    /\ UNCHANGED <<cs, wsClient>>

\* Stop: Flush has returned; an error is logged
StopFlushed ==
    /\ task.main = "flushing"
    /\ Unlock("main")
    /\ task' = [task EXCEPT !.main = "wsClose"]
    /\ Log(IF call["main"].err THEN "flushFailed" ELSE "flushed")
    /\ UNCHANGED <<cs, wsClient>>

\* Stop: cs.wsClient.Close(); an error is logged.  The client may close its
\* price update channel with the connection.
StopWsClose ==
    /\ task.main = "wsClose"
    /\ \E err \in BOOLEAN, closes \in BOOLEAN :
          /\ wsClient' = [wsClient EXCEPT !.st = "closed", !.closed = @ \/ closes]
          /\ Log(IF err THEN "wsCloseFailed" ELSE "wsClosed")
    /\ task' = [task EXCEPT !.main = "close"]
    /\ UNCHANGED cs
    /\ UNCHANGED recVars

\* Stop: spreadRecorder.Close(), called
StopClose ==
    /\ task.main = "close"
    /\ BeginClose("main")
    /\ task' = [task EXCEPT !.main = "closing"]
    /\ Log("close")
    /\ UNCHANGED <<cs, wsClient>>

\* Stop: Close has returned; an error is logged; return nil
StopClosed ==
    /\ task.main = "closing"
    /\ Unlock("main")
    /\ task' = [task EXCEPT !.main = "stopped"]
    /\ events' = events \o <<IF call["main"].err THEN "closeFailed" ELSE "closed", "returnNil">>
    /\ UNCHANGED <<cs, wsClient>>

\* A call of the recorder under way takes its next step.
RecorderStep ==
    /\ \E p \in DOMAIN call :
          \/ Record(p)
          \/ Flush(p)
          \/ CloseWriters(p)
          \/ CloseBuffers(p)
          \/ CloseFiles(p)
    /\ UNCHANGED svcVars

\* A panic ends the process.
NextService ==
    /\ task.main # "panic"
    /\ \/ StartLogin
       \/ StartConnect
       \/ StartSubscribe
       \/ StartTasks
       \/ Deliver
       \/ CloseChannel
       \/ Tick
       \/ ProcSelect
       \/ ProcMap
       \/ ProcRecord
       \/ ProcRecorded
       \/ FlushSelect
       \/ FlushCall
       \/ FlushReturn
       \/ StopTimer
       \/ StopCancel
       \/ StopFlush
       \/ StopFlushed
       \/ StopWsClose
       \/ StopClose
       \/ StopClosed
       \/ RecorderStep
    /\ UNCHANGED inputs

SpecService == InitService /\ [][NextService]_vars

\* The service on a file system that works, with one known observation to
\* come; the websocket client never stops sending.
InitServiceFair ==
    /\ call = [p \in {"main", "proc", "flush"} |-> Idle]
    /\ faults = MaxFaults
    /\ inputs = {PriceData("EURUSD", Time(18, 14, 0, 0, 0))}
    /\ NewCSVSpreadRecorder
    /\ NewCollectorService

NextServiceFair ==
    \/ NextService
    \/ /\ task.main # "panic"
       /\ DeliverOn
       /\ UNCHANGED inputs

\* A goroutine that can take a step takes one, a call under way goes on, and
\* the ticker ticks; a goroutine that waits for r.mu gets it (a sync.Mutex
\* hands the lock to a waiter that has waited long); a select at which
\* ctx.Done() or stopFlush is ready again and again takes that case in the end
\* (it chooses among its ready cases at random).  The steps of one goroutine
\* exclude each other, so fairness is stated per goroutine.  Nothing makes
\* Start or Stop be called or the websocket client send or close.
Fairness ==
    /\ WF_vars((StartConnect \/ StartSubscribe \/ StartTasks \/ StopCancel
                   \/ StopFlushed \/ StopWsClose \/ StopClosed)
                /\ UNCHANGED inputs)
    /\ SF_vars((StopFlush \/ StopClose) /\ UNCHANGED inputs)
    /\ WF_vars((ProcSelect \/ ProcMap \/ ProcRecorded) /\ UNCHANGED inputs)
    /\ SF_vars(ProcSelect /\ task'.proc = "cancelled" /\ UNCHANGED inputs)
    /\ SF_vars(ProcRecord /\ UNCHANGED inputs)
    /\ WF_vars((FlushSelect \/ FlushReturn) /\ UNCHANGED inputs)
    /\ SF_vars(FlushSelect /\ task'.flush = "exit" /\ UNCHANGED inputs)
    /\ SF_vars(FlushCall /\ UNCHANGED inputs)
    /\ WF_vars(Tick /\ UNCHANGED inputs)
    /\ WF_vars(RecorderStep /\ UNCHANGED inputs)

SpecServiceFair == InitServiceFair /\ [][NextServiceFair]_vars /\ Fairness

\* ======================================================== the properties
Partitions ==
    { [ticker |-> o.Ticker, key |-> PartitionKey(o.Ticker, o.Timestamp),
       path |-> FilePath(o.Ticker, o.Timestamp)] : o \in Observations }

PartitionsOf(t) == { P \in Partitions : P.ticker = t }

\* The key and the row of each observation.
KeyOf == [o \in Observations |-> PartitionKey(o.Ticker, o.Timestamp)]

RowOf == [o \in Observations |-> RecordRow(o)]

\* Same series, same calendar date, same hour of the day.
SameHour(a, b) ==
    /\ a.Ticker = b.Ticker
    /\ a.Timestamp.year = b.Timestamp.year
    /\ a.Timestamp.month = b.Timestamp.month
    /\ a.Timestamp.day = b.Timestamp.day
    /\ a.Timestamp.hour = b.Timestamp.hour

\* The rows Record and RecordBatch have appended to a key, in lock order.
OkRows(key) ==
    LET sel == SelectSeq(hist, LAMBDA e : e.key = key /\ e.st = "ok")
    IN  [j \in 1..Len(sel) |-> sel[j].row]

OnDisk(path) == IF path \in DOMAIN disk THEN disk[path] ELSE <<>>

Pending(key) == IF key \in DOMAIN buffers THEN buffers[key].pending ELSE <<>>

\* The series of which an observation has been through Record or RecordBatch.
SeriesRecorded ==
    { t \in Tickers : \E P \in PartitionsOf(t) :
                         \E j \in DOMAIN hist : hist[j].key = P.key /\ hist[j].st # "queued" }

\* The caller is about to run Record's body or a turn of RecordBatch's loop.
Recording(p) == call[p].pc \in {"record", "batch"} /\ call[p].i <= Len(call[p].data)

\* The element of its call the caller has put through getWriter last (0: none).
LastDone(p) ==
    CASE call[p].pc = "batch" -> call[p].i - 1
      [] call[p].pc = "ret" /\ call[p].op \in {"Record", "RecordBatch"} ->
            IF call[p].err THEN call[p].i ELSE Len(call[p].data)
      [] OTHER -> 0

\* C1: at any time the recorder holds at most one triple per series, and the
\* process at most one open descriptor on the files of a series, so the number
\* of triples never exceeds the number of series recorded, over however many
\* hours the observations spread.
C1_OneTriplePerSeries ==
    /\ \A t \in Tickers :
          /\ Cardinality({ P \in PartitionsOf(t) : P.key \in writers }) <= 1
          /\ \A P, Q \in PartitionsOf(t) :
                /\ fds[P.path] <= 1
                /\ P.path # Q.path => fds[P.path] + fds[Q.path] <= 1
    /\ writers \subseteq { P.key : P \in Partitions }
    /\ Cardinality(writers) <= Cardinality(SeriesRecorded)

\* A series has been recorded in two hours and holds a triple.
C1_Witness ==
    \E i, j \in DOMAIN hist :
        /\ i < j
        /\ hist[i].st = "ok" /\ hist[j].st = "ok"
        /\ hist[i].key # hist[j].key
        /\ \E t \in Tickers : {hist[i].key, hist[j].key} \subseteq { P.key : P \in PartitionsOf(t) }
        /\ hist[j].key \in writers

\* Observations of one series in one date and hour have one key and one file.
SameHourSameKey ==
    \A a, b \in Observations :
        SameHour(a, b) =>
           /\ PartitionKey(a.Ticker, a.Timestamp) = PartitionKey(b.Ticker, b.Timestamp)
           /\ FilePath(a.Ticker, a.Timestamp) = FilePath(b.Ticker, b.Timestamp)

\* C2: two observations of one series in the same date and hour have the same
\* partition key and file, and Record of an observation whose key is
\* registered opens nothing and closes nothing: the three maps keep their keys,
\* the file handles and descriptors stay as they are, no file is created.
C2_SamePartitionSameTriple ==
    [][ /\ SameHourSameKey
        /\ \A p \in DOMAIN call :
              ( /\ Recording(p)
                /\ call'[p] # call[p]
                /\ KeyOf[call[p].data[call[p].i]] \in writers )
              => /\ writers' = writers
                 /\ files' = files
                 /\ DOMAIN buffers' = DOMAIN buffers
                 /\ fds' = fds
                 /\ DOMAIN disk' = DOMAIN disk
      ]_vars

\* Two different observations of one hour have gone through the one triple.
C2_Witness ==
    \E i, j \in DOMAIN hist :
        /\ i < j
        /\ hist[i].st = "ok" /\ hist[j].st = "ok"
        /\ hist[i].key = hist[j].key
        /\ hist[i].row # hist[j].row
        /\ \E P \in Partitions :
              /\ P.key = hist[i].key
              /\ P.key \in writers
              /\ fds[P.path] = 1
              /\ OnDisk(P.path) \o Pending(P.key) = <<HeaderRow, hist[i].row, hist[j].row>>

\* Observations of one series in different hours have different keys.
OtherHourOtherKey ==
    \A a, b \in Observations :
        a.Ticker = b.Ticker /\ ~SameHour(a, b) =>
           PartitionKey(a.Ticker, a.Timestamp) # PartitionKey(b.Ticker, b.Timestamp)

\* C3: observations of one series in different hours have different partition
\* keys, and once Record (or a turn of RecordBatch) has handled an observation,
\* no other partition of its series is left in the maps or open.
C3_HourBoundaryClosesOld ==
    /\ OtherHourOtherKey
    /\ \A p \in DOMAIN call :
          LastDone(p) > 0 =>
             LET d == call[p].data[LastDone(p)]
             IN  \A P \in PartitionsOf(d.Ticker) :
                    P.key # KeyOf[d] =>
                       /\ P.key \notin writers
                       /\ P.key \notin DOMAIN buffers
                       /\ P.key \notin DOMAIN files
                       /\ fds[P.path] = 0

\* Record of EURUSD at 15:00:00.000 has returned after one at 14:59:59.999:
\* the hour-15 triple is registered and the hour-14 file is closed.
C3_Witness ==
    \E p \in DOMAIN call :
        /\ call[p].pc = "ret" /\ call[p].op = "Record" /\ ~call[p].err
        /\ call[p].data[1] = PriceData("EURUSD", Time(18, 15, 0, 0, 0))
        /\ \E j \in DOMAIN hist :
              /\ hist[j].st = "ok"
              /\ hist[j].key = PartitionKey("EURUSD", LastOfHour)
              /\ hist[j].row = RecordRow(PriceData("EURUSD", LastOfHour))
        /\ PartitionKey("EURUSD", Time(18, 15, 0, 0, 0)) \in writers
        /\ fds[FilePath("EURUSD", LastOfHour)] = 0
        /\ FilePath("EURUSD", LastOfHour) \in DOMAIN disk

\* C4: as long as no write to its file has failed, a partition that is no
\* longer registered has all the rows appended to it in its file, after the
\* header; so they are there when the first row of the next partition of the
\* series is appended.
C4_NoRowLostAtRotation ==
    \A P \in Partitions :
        (P.key \notin writers /\ P.path \notin lost /\ OkRows(P.key) # <<>>)
        => OnDisk(P.path) = <<HeaderRow>> \o OkRows(P.key)

\* In the middle of a batch: its first element went to one hour, its second to
\* the next hour of the series, and the first hour's file is complete.
C4_Witness ==
    \E p \in DOMAIN call :
        /\ call[p].op = "RecordBatch" /\ LastDone(p) = 2
        /\ hist[call[p].base + 1].st = "ok" /\ hist[call[p].base + 2].st = "ok"
        /\ call[p].data[1].Ticker = call[p].data[2].Ticker
        /\ hist[call[p].base + 1].key # hist[call[p].base + 2].key
        /\ hist[call[p].base + 1].key \notin writers
        /\ hist[call[p].base + 2].key \in writers
        /\ lost = {}
        /\ \E P \in Partitions :
              /\ P.key = hist[call[p].base + 1].key
              /\ OnDisk(P.path) = <<HeaderRow>> \o OkRows(P.key)

\* What a partition's file and buffer hold together.
Content(P) == OnDisk(P.path) \o Pending(P.key)

DataRows(rows) == SelectSeq(rows, LAMBDA r : r # HeaderRow)

RECURSIVE IsSubSeq(_, _)
IsSubSeq(a, b) ==
    IF a = <<>> THEN TRUE
    ELSE IF b = <<>> THEN FALSE
    ELSE IF Head(a) = Head(b) THEN IsSubSeq(Tail(a), Tail(b))
    ELSE IsSubSeq(a, Tail(b))

Returned(p, op) == call[p].pc = "ret" /\ call[p].op = op

\* C5: when Flush returns, with an error or without, its loop has been through
\* every registered triple.
C5_FlushAttemptsAll ==
    \A p \in DOMAIN call : Returned(p, "Flush") => call[p].todo = {}

\* C6 as stated: after a Flush that returned no error, the file of every
\* registered partition holds the header and exactly the rows appended to the
\* partition.
C6_FlushedFileHasEveryRow ==
    \A p \in DOMAIN call :
        Returned(p, "Flush") /\ ~call[p].err =>
           \A P \in Partitions :
              P.key \in writers => OnDisk(P.path) = <<HeaderRow>> \o OkRows(P.key)

\* C6, amended: after a Flush that returned no error, the file of every
\* registered partition to whose file no write has failed holds the header and
\* exactly the rows appended to the partition, in order, and nothing of it is
\* left in the buffer.
C6_FlushedFileHasEveryRowUnlessLost ==
    \A p \in DOMAIN call :
        Returned(p, "Flush") /\ ~call[p].err =>
           \A P \in Partitions :
              P.key \in writers =>
                 /\ Pending(P.key) = <<>>
                 /\ P.path \notin lost => OnDisk(P.path) = <<HeaderRow>> \o OkRows(P.key)

\* Flush has returned no error with two rows appended to a registered
\* partition, which are in its file.
C6_Witness ==
    \E p \in DOMAIN call :
        /\ Returned(p, "Flush") /\ ~call[p].err
        /\ \E P \in Partitions :
              /\ P.key \in writers
              /\ P.path \notin lost
              /\ Len(OkRows(P.key)) = 2
              /\ OnDisk(P.path) = <<HeaderRow>> \o OkRows(P.key)

\* C7: when Close returns, with an error or without, the three maps are empty
\* and no file is open.
C7_CloseReleasesAll ==
    \A p \in DOMAIN call :
        Returned(p, "Close") =>
           /\ writers = {}
           /\ DOMAIN buffers = {}
           /\ DOMAIN files = {}
           /\ \A path \in AllPaths : fds[path] = 0

\* C8: when RecordBatch returns, its elements up to the first failure have
\* been appended in input order, the failing element makes it return an error,
\* no later element has been touched, and what the earlier ones appended is
\* still in the buffer or the file of its partition.
C8_BatchStopsAtFirstFailure ==
    \A p \in DOMAIN call :
        Returned(p, "RecordBatch") =>
           LET n == Len(call[p].data)
               st(j) == hist[call[p].base + j].st
           IN  /\ \A j \in 1..n :
                     /\ hist[call[p].base + j].row = RowOf[call[p].data[j]]
                     /\ hist[call[p].base + j].key = KeyOf[call[p].data[j]]
               /\ IF call[p].err
                  THEN /\ call[p].i \in 1..n
                       /\ \A j \in 1..n :
                             st(j) = IF j < call[p].i THEN "ok"
                                     ELSE IF j = call[p].i THEN "err" ELSE "queued"
                  ELSE \A j \in 1..n : st(j) = "ok"
               /\ \A P \in Partitions :
                     P.path \notin lost /\ P.path \in DOMAIN disk =>
                        Content(P) = <<HeaderRow>> \o OkRows(P.key)

\* A batch of two has failed at its second element, by a call that failed and
\* not by a lost write, and the row of the first is where it was appended.
C8_Witness ==
    \E p \in DOMAIN call :
        /\ Returned(p, "RecordBatch") /\ call[p].err
        /\ Len(call[p].data) = 2 /\ call[p].i = 2
        /\ lost = {}
        /\ \E P \in Partitions :
              /\ P.key = hist[call[p].base + 1].key
              /\ Content(P) = <<HeaderRow, RecordRow(call[p].data[1])>>

\* C9: at most one caller is inside Record, RecordBatch, Flush or Close, from
\* its first statement to its return, and the lock is held exactly then.
C9_MutualExclusion ==
    /\ Cardinality({ p \in DOMAIN call : call[p].pc # "idle" }) <= 1
    /\ mu <=> \E p \in DOMAIN call : call[p].pc # "idle"

\* One of several callers is between two elements of its batch.
C9_Witness ==
    /\ Cardinality(DOMAIN call) >= 2
    /\ mu
    /\ \E p \in DOMAIN call :
          /\ call[p].pc = "batch" /\ call[p].i = 2 /\ Len(call[p].data) = 2
          /\ \A q \in DOMAIN call \ {p} : call[q].pc = "idle"

\* C10: the data rows of a partition, in its file and then its buffer, are
\* rows appended to it in the order in which their calls took the lock (and in
\* input order within a batch): all of them when no write to the file has
\* failed, and never in another order.
C10_RowsInLockOrder ==
    \A P \in Partitions :
        /\ IsSubSeq(DataRows(Content(P)), OkRows(P.key))
        /\ P.path \notin lost /\ P.path \in DOMAIN disk =>
              DataRows(Content(P)) = OkRows(P.key)

\* With several callers, two different rows of one partition are in its file
\* and buffer in the order of their calls.
C10_Witness ==
    /\ Cardinality(DOMAIN call) >= 2
    /\ \E i, j \in DOMAIN hist :
          /\ i < j
          /\ hist[i].st = "ok" /\ hist[j].st = "ok"
          /\ hist[i].key = hist[j].key
          /\ hist[i].row # hist[j].row
          /\ \E P \in Partitions :
                /\ P.key = hist[i].key
                /\ DataRows(Content(P)) = <<hist[i].row, hist[j].row>>

\* How many of the rows are the header.
Headers(rows) == Len(SelectSeq(rows, LAMBDA r : r = HeaderRow))

\* C11 as stated: a partition file that has rows has exactly one header, and
\* it is the first row.
C11_ExactlyOneHeader ==
    \A P \in Partitions :
        Content(P) # <<>> => Headers(Content(P)) = 1 /\ Content(P)[1] = HeaderRow

\* C11, amended: a partition's file and buffer never hold a second header, a
\* header is always the first row, and as long as no write to the file has
\* failed the file that has rows begins with the header.
C11_NoSecondHeader ==
    \A P \in Partitions :
        /\ Headers(Content(P)) <= 1
        /\ Headers(Content(P)) = 1 => Content(P)[1] = HeaderRow
        /\ (Content(P) # <<>> /\ P.path \notin lost) => Content(P)[1] = HeaderRow

\* A partition was recorded to, closed for the next hour of its series and
\* opened again on its existing file: two rows after the one header.
C11_Witness ==
    \E i, j, k \in DOMAIN hist :
        /\ i < j /\ j < k
        /\ hist[i].st = "ok" /\ hist[j].st = "ok" /\ hist[k].st = "ok"
        /\ hist[i].key = hist[k].key
        /\ hist[j].key # hist[i].key
        /\ \E P, Q \in Partitions :
              /\ P.key = hist[i].key /\ Q.key = hist[j].key /\ P.ticker = Q.ticker
              /\ Content(P) = <<HeaderRow, hist[i].row, hist[k].row>>

\* The file a data row belongs to, read from the row: its ticker, and the date
\* and hour of its timestamp text.
RowPath(row) ==
    LET t == row[1]
    IN  BaseDir \o "/" \o SubSeq(t, 1, 4) \o SubSeq(t, 6, 7) \o SubSeq(t, 9, 10)
                \o "/" \o row[3] \o "_" \o SubSeq(t, 12, 13) \o ".csv"

PathOfRow == [r \in { RowOf[o] : o \in Observations } |-> RowPath(r)]

\* Observations of different series, or of different hours, have different files.
OtherSeriesOtherFile ==
    \A a, b \in Observations :
        (a.Ticker # b.Ticker \/ ~SameHour(a, b)) =>
           FilePath(a.Ticker, a.Timestamp) # FilePath(b.Ticker, b.Timestamp)

\* C12: every data row in a file, and every data row buffered for a file, is
\* a row of that file's series, date and hour; different series in one hour
\* have different files.
C12_RowsInOwnFile ==
    /\ OtherSeriesOtherFile
    /\ \A path \in DOMAIN disk :
          \A n \in 1..Len(disk[path]) :
             disk[path][n] # HeaderRow => PathOfRow[disk[path][n]] = path
    /\ \A k \in DOMAIN buffers :
          \A n \in 1..Len(buffers[k].pending) :
             buffers[k].pending[n] # HeaderRow =>
                PathOfRow[buffers[k].pending[n]] = files[k].path

\* EUR and EURUSD of one hour are in two files, and EURUSD of the next hour in
\* a third.
C12_Witness ==
    /\ DataRows(OnDisk(FilePath("EUR", LastOfHour))) = <<RowOf[PriceData("EUR", LastOfHour)]>>
    /\ DataRows(OnDisk(FilePath("EURUSD", LastOfHour))) = <<RowOf[PriceData("EURUSD", LastOfHour)]>>
    /\ DataRows(Content([path |-> FilePath("EURUSD", Time(18, 15, 0, 0, 0)),
                         key |-> PartitionKey("EURUSD", Time(18, 15, 0, 0, 0))]))
          = <<RowOf[PriceData("EURUSD", Time(18, 15, 0, 0, 0))]>>

\* ------------------------------------------------------- reading a price
DigitVal(c) == CHOOSE d \in 0..9 : Digit(d) = c

RECURSIVE Atoi(_)
Atoi(s) ==
    IF Len(s) = 0 THEN 0
    ELSE 10 * Atoi(SubSeq(s, 1, Len(s) - 1)) + DigitVal(SubSeq(s, Len(s), Len(s)))

\* Where the decimal point of the text is (0: nowhere).
PointAt(s) ==
    IF \E i \in 1..Len(s) : SubSeq(s, i, i) = "."
    THEN CHOOSE i \in 1..Len(s) : SubSeq(s, i, i) = "."
    ELSE 0

Unsigned(s) == IF Len(s) > 0 /\ SubSeq(s, 1, 1) = "-" THEN SubSeq(s, 2, Len(s)) ELSE s

\* The number of digits after the decimal point.
FracDigits(s) == IF PointAt(s) = 0 THEN 0 ELSE Len(s) - PointAt(s)

\* The price a text stands for, in units of 10^-Scale (digits past the scale
\* are read as written in the text only when they are zeros).
ParsePrice(s) ==
    LET u    == Unsigned(s)
        pt   == PointAt(u)
        int  == IF pt = 0 THEN u ELSE SubSeq(u, 1, pt - 1)
        frac == IF pt = 0 THEN "" ELSE SubSeq(u, pt + 1, Len(u))
        kept == IF Len(frac) > Scale THEN SubSeq(frac, 1, Scale) ELSE frac
        mag  == Atoi(int) * Pow10(Scale) + Atoi(kept) * Pow10(Scale - Len(kept))
    IN  IF u = s THEN mag ELSE -mag

\* v is x rounded to a multiple of 10^-decimals, a tie going away from zero.
IsHalfAwayRounding(v, x, decimals) ==
    LET unit == Pow10(Scale - decimals)
    IN  /\ v % unit = 0
        /\ 2 * Abs(v - x) <= unit
        /\ 2 * Abs(v - x) = unit => Abs(v) > Abs(x)

\* The observations Record or RecordBatch has written and the row each is in:
\* the last row of its partition, as the caller that wrote it has not returned.
JustWritten ==
    { [data |-> call[p].data[LastDone(p)],
       row  |-> LET d == call[p].data[LastDone(p)]
                    c == Content([key |-> PartitionKey(d.Ticker, d.Timestamp),
                                  path |-> FilePath(d.Ticker, d.Timestamp)])
                IN  c[Len(c)]]
      : p \in { q \in DOMAIN call : /\ LastDone(q) > 0
                                    /\ hist[call[q].base + LastDone(q)].st = "ok" } }

\* The three prices of an observation with the text written for each.
PriceFields(w) ==
    { <<w.data.Bid, w.row[5]>>, <<w.data.Ask, w.row[6]>>, <<w.data.Spread, w.row[7]>> }

C14_RawValueWritten ==
    \A w \in JustWritten :
        w.data.Decimals <= 0 =>
           \A f \in PriceFields(w) : ParsePrice(f[2]) = f[1]

\* ---------------------------------------------------------------- Stop
\* Where the last call of Stop begins in the history (0: Stop was not called).
LastStopAt ==
    LET at == { i \in DOMAIN events : events[i] = "stop" }
    IN  IF at = {} THEN 0 ELSE CHOOSE i \in at : \A j \in at : j <= i

\* What the last call of Stop has done.
LastStop == IF LastStopAt = 0 THEN <<>> ELSE SubSeq(events, LastStopAt, Len(events))

\* A step, whether it failed or not.
StepOf(e) ==
    CASE e = "flushFailed" -> "flushed"
      [] e = "wsCloseFailed" -> "wsClosed"
      [] e = "closeFailed" -> "closed"
      [] OTHER -> e

Steps(seq) == [i \in DOMAIN seq |-> StepOf(seq[i])]

IsPrefix(a, b) == Len(a) <= Len(b) /\ a = SubSeq(b, 1, Len(a))

\* Stop's steps: the timer, the cancellation, the final Flush from its call to
\* its return, the websocket client's Close, the recorder's Close from its
\* call to its return.  There is no timer to stop before Start has made one.
StopOrder ==
    { <<"stop", "timer", "cancel", "flush", "flushed", "wsClosed", "close", "closed", "returnNil">>,
      <<"stop", "cancel", "flush", "flushed", "wsClosed", "close", "closed", "returnNil">> }

Count(seq, e) == Cardinality({ i \in DOMAIN seq : seq[i] = e })

Panicked == task.main = "panic"

\* C15: a call of Stop that does not panic does its steps in this order: the
\* flush timer is stopped, ctx is cancelled, Flush is called once and returns,
\* the websocket client is closed, Close is called and returns.  No step
\* begins before the one before it is over: by the final Flush the timer is
\* stopped and ctx cancelled, by the client's Close the final Flush has
\* returned, by the recorder's Close the client is closed; and Close is called
\* exactly once.
C15_StopStepsInOrder ==
    /\ ~Panicked => \/ LastStop = <<>>
                    \/ \E order \in StopOrder : IsPrefix(Steps(LastStop), order)
    /\ task.main \in {"flush", "flushing", "wsClose", "close", "closing"}
          => cs.ctxDone /\ cs.flushTicker # "running"
    /\ task.main \in {"wsClose", "close"} => call["main"].pc = "idle" /\ Count(LastStop, "flush") = 1
    /\ task.main \in {"close", "closing"} => wsClient.st = "closed"
    /\ task.main = "closing" => call["main"].op = "Close"
    /\ task.main = "stopped" => Count(LastStop, "close") = 1

\* After a Start that succeeded and an update that was recorded, Stop has
\* gone through all of its steps.
C15_Witness ==
    /\ task.main = "stopped"
    /\ Count(LastStop, "timer") = 1
    /\ \E i \in DOMAIN hist : hist[i].st = "ok"

\* C16: whichever of the final Flush, the websocket client's Close and the
\* recorder's Close fail, a call of Stop that is over has done every step
\* after the failure and has returned nil.
C16_StopBestEffort ==
    task.main = "stopped"
        => /\ Steps(LastStop) \in StopOrder
           /\ LastStop[Len(LastStop)] = "returnNil"
           /\ Count(LastStop, "returnErr") = 0

\* Stop has returned after the final Flush, the client's Close and the
\* recorder's Close have all failed.
C16_Witness ==
    /\ task.main = "stopped"
    /\ Count(LastStop, "flushFailed") = 1
    /\ Count(LastStop, "wsCloseFailed") = 1
    /\ Count(LastStop, "closeFailed") = 1

\* ------------------------------------------------ Stop and the goroutines
\* Nothing has failed: no write, no Record, no step of Stop.
NoIOError ==
    /\ lost = {}
    /\ \A i \in DOMAIN hist : hist[i].st # "err"
    /\ \A i \in DOMAIN events : StepOf(events[i]) = events[i]

\* C17: once Stop has returned and nothing has failed, the row of every
\* observation Record has returned nil for is in its partition's file.
C17_StoppedNothingBuffered ==
    task.main = "stopped" /\ NoIOError
        => \A i \in DOMAIN hist :
              hist[i].st = "ok"
                  => \E j \in DOMAIN OnDisk(PathOfRow[hist[i].row]) :
                        OnDisk(PathOfRow[hist[i].row])[j] = hist[i].row

\* C18: once the websocket client has closed the price update channel of a
\* running service, ctx is cancelled, the flush goroutine returns and the
\* recorder is closed.
C18_ClosedChannelStops ==
    (wsClient.closed /\ task.main = "running")
        ~> (cs.ctxDone /\ task.flush = "exit" /\ Count(events, "close") > 0)

\* C19: an update processPriceUpdates has received after ctx was cancelled is
\* not passed to Record.
C19_NoRecordAfterCancel ==
    task.proc \in {"record", "recording"} => ~task.late

\* C20: an update whose ticker cs.instruments does not hold is not passed to
\* Record; processPriceUpdates does not return because of it but is at its
\* select again, where it returns only on ctx.Done() or a closed channel, and
\* from where it passes the update of a known ticker to Record.
C20_UnknownTickerDropped ==
    /\ [](task.proc \in {"record", "recording"}
             => /\ task.update[1].Ticker \in DOMAIN instruments
                /\ call["proc"].pc # "idle"
                      => call["proc"].data[1].Ticker = task.update[1].Ticker)
    /\ [][ /\ task.proc = "map" /\ task.update[1].Ticker \notin DOMAIN instruments
                 => task'.proc \in {"map", "select"}
           /\ task.proc = "map" /\ task.update[1].Ticker \in DOMAIN instruments
                 => task'.proc \in {"map", "record"}
           /\ task'.proc \in {"cancelled", "closed"} /\ task.proc # task'.proc
                 => /\ task.proc = "select"
                    /\ cs.ctxDone \/ (wsClient.closed /\ wsClient.queue = <<>>) ]_vars

\* An update of an unknown ticker has been dropped and the update after it,
\* of a known ticker, has been written by Record.
C20_Witness ==
    /\ task.dropped = 1
    /\ wsClient.sent = 2
    /\ task.proc = "recording"
    /\ call["proc"].pc = "ret"
    /\ Len(hist) = 1
    /\ hist[1].st = "ok"

\* ------------------------------------------------------- the lifecycle
\* A call of Stop has returned.
StopReturned == Count(events, "returnNil") > 0

\* C21: a service that has been stopped stays stopped: once a call of Stop
\* has returned, Start's and Stop's caller is in no step of Start or Stop
\* again and calls no operation of the recorder.
C21_StoppedIsTerminal ==
    StopReturned => task.main = "stopped" /\ call["main"].pc = "idle"

\* C22: when Stop is called again after a Start that succeeded, nothing
\* fails, and stopFlush is closed, the final Flush called, the websocket
\* client closed and the recorder's Close called at most once.
C22_StopOnlyOnce ==
    cs.flushTicker # "nil" /\ task.stops > 1
        => /\ ~Panicked
           /\ Count(events, "timer") <= 1
           /\ Count(events, "flush") <= 1
           /\ Count(Steps(events), "wsClosed") <= 1
           /\ Count(events, "close") <= 1

\* ------------------------------------------------- the cleanup's reach
\* C23: when Record (or a turn of RecordBatch) resolves the key of an
\* observation, the triple of every other series stays registered, with its
\* file open; also when the observation's ticker begins the other's.
C23_OtherSeriesLeftOpen ==
    [][ \A p \in DOMAIN call :
           Recording(p) =>
              \A P \in Partitions :
                 (P.ticker # call[p].data[call[p].i].Ticker /\ P.key \in writers)
                     => /\ P.key \in writers'
                        /\ P.key \in DOMAIN files' /\ files'[P.key].open
                        /\ fds'[P.path] = fds[P.path] ]_vars

\* ------------------------------------------------ RecordBatch and Record
SameMap(f, g) == DOMAIN f = DOMAIN g /\ \A k \in DOMAIN f : f[k] = g[k]

\* Two recorders with the same triples and buffers on file systems with the
\* same files, directories and descriptors.
SameRec(A, B) ==
    /\ A.writers = B.writers
    /\ SameMap(A.buffers, B.buffers)
    /\ SameMap(A.files, B.files)
    /\ SameMap(A.disk, B.disk)
    /\ A.dirs = B.dirs
    /\ SameMap(A.fds, B.fds)
    /\ A.faults = B.faults
    /\ A.lost = B.lost

\* A map, and a recorder, written out key by key.
WrittenMap(f) == IF DOMAIN f = {} THEN EmptyMap ELSE [k \in DOMAIN f |-> f[k]]

Written(R) ==
    [writers |-> R.writers, buffers |-> WrittenMap(R.buffers), files |-> WrittenMap(R.files),
     disk |-> WrittenMap(R.disk), dirs |-> R.dirs, fds |-> WrittenMap(R.fds),
     faults |-> R.faults, lost |-> R.lost]

\* Record(x1); ...; Record(xn) on recorder R with nothing in between, up to
\* the first that fails, can leave recorder T, the Record of element number
\* failed having failed (0: none has).
RECURSIVE Records(_, _, _, _, _)
Records(R, data, i, T, failed) ==
    IF i > Len(data) THEN failed = 0 /\ SameRec(R, T)
    ELSE \E o \in RecordOne(Written(R), data[i]) :
            IF o.ok THEN Records(o.R, data, i + 1, T, failed)
                    ELSE failed = i /\ SameRec(o.R, T)

\* C24: RecordBatch(x1..xn) leaves what Record(x1); ...; Record(xn) can leave
\* of the recorder it found (triples, buffers, files' contents, descriptors),
\* and fails at the first element the Record of which fails.
C24_BatchIsRecords ==
    \A p \in DOMAIN call :
        call[p].pc = "ret" /\ call[p].op = "RecordBatch"
            => Records(call[p].start[1], call[p].data, 1, Rec,
                       IF call[p].err THEN call[p].i ELSE 0)

\* A batch over two hours of a series has failed at its second element.
C24_Witness ==
    \E p \in DOMAIN call :
        /\ call[p].pc = "ret" /\ call[p].op = "RecordBatch"
        /\ call[p].err /\ call[p].i = 2
        /\ ~SameHour(call[p].data[1], call[p].data[2])
        /\ call[p].start[1].writers # {}

\* ------------------------------------------------------ Flush's frame
\* C25: Flush closes and deletes nothing: from its call to its return the
\* registered keys, their files and the open descriptors stay as they are; so
\* a partition that is recorded to and flushed in turns keeps its one triple,
\* and its rows are in its one file, after the header, in their order.
C25_FlushKeepsTriples ==
    [][ \A p \in DOMAIN call :
           (call[p].op = "Flush" \/ call'[p].op = "Flush")
               => /\ writers' = writers
                  /\ DOMAIN buffers' = DOMAIN buffers
                  /\ SameMap(files', files)
                  /\ SameMap(fds', fds) ]_vars

\* Flush has returned nil on a partition that was recorded to twice: the
\* triple is registered, the file open, and the file holds the header and
\* both rows.
C25_Witness ==
    \E p \in DOMAIN call, P \in Partitions :
        /\ call[p].pc = "ret" /\ call[p].op = "Flush" /\ ~call[p].err
        /\ P.key \in writers /\ files[P.key].open /\ fds[P.path] = 1
        /\ Len(OkRows(P.key)) = 2
        /\ Len(hist) = 2
        /\ lost = {}
        /\ OnDisk(P.path) = <<HeaderRow>> \o OkRows(P.key)

\* ----------------------------------------------- the goroutines' ends
\* processPriceUpdates and the flush goroutine have returned, or were never
\* started.
TasksOver ==
    /\ task.proc \in {"none", "cancelled", "closed"}
    /\ task.flush \in {"none", "exit"}

\* C26: once ctx is cancelled, processPriceUpdates and the flush goroutine
\* return (or the process has ended in a panic), whatever the channel and
\* the ticker hold.
C26_CancelEndsTasks ==
    cs.ctxDone ~> (TasksOver \/ Panicked)

\* ctx is cancelled while both goroutines are at their select, an update is
\* in the channel and a tick is pending.
C26_Witness ==
    /\ cs.ctxDone
    /\ task.proc = "select" /\ task.flush = "select"
    /\ wsClient.queue # <<>>
    /\ cs.tick

\* C27: once Stop has returned and nothing has failed, r.writers holds no key
\* and no partition file is open, whatever processPriceUpdates does later.
C27_NothingOpenAfterStop ==
    StopReturned /\ NoIOError
        => /\ writers = {}
           /\ \A path \in AllPaths : fds[path] = 0

\* ------------------------------------------------ a Record that fails
\* C28: when Record has returned an error, processPriceUpdates is at its
\* select again with that update given up; every update the websocket client
\* has sent is in the channel, held by the loop, dropped by mapPriceUpdate or
\* passed to Record exactly once; and from its select the loop takes the next
\* update of the channel, which reaches Record when its ticker is known.
C28_RecordErrorGoesOn ==
    /\ [][ (task.proc = "recording" /\ call["proc"].pc = "ret"
               /\ call["proc"].err /\ task'.proc # task.proc)
              => /\ task'.proc = "select"
                 /\ task'.update = <<>>
                 /\ hist' = hist ]_vars
    /\ [](Len(hist) + task.dropped + Len(wsClient.queue)
             + (IF task.proc \in {"map", "record"} THEN 1 ELSE 0) = wsClient.sent)
    /\ [][ (task.proc = "select" /\ task'.proc # "select"
               /\ ~cs.ctxDone /\ wsClient.queue # <<>>)
              => /\ task'.proc = "map"
                 /\ task'.update = <<Head(wsClient.queue)>> ]_vars
    /\ [][ (task.proc = "record" /\ task'.proc # "record")
              => /\ task'.proc = "recording"
                 /\ RecordRow(call'["proc"].data[1])
                       = RecordRow(mapPriceUpdate(task.update[1]).data)
                 /\ Len(hist') = Len(hist) + 1 ]_vars

\* The first update's Record has failed and the second update's Record has
\* returned nil.
C28_Witness ==
    /\ Len(hist) = 2
    /\ hist[1].st = "err"
    /\ hist[2].st = "ok"
    /\ task.proc = "select"
    /\ wsClient.sent = 2

\* ------------------------------------------------------ what Start spawns
\* C29: while Start has not got past SubscribeToPrices, and after it has
\* returned an error, neither goroutine runs and there is no ticker; the two
\* goroutines exist only together and only on a subscribed websocket client.
C29_SpawnAfterSubscribe ==
    /\ task.main \in {"idle", "connect", "subscribe", "spawn", "failed"}
          => /\ task.proc = "none"
             /\ task.flush = "none"
             /\ cs.flushTicker = "nil"
    /\ task.main = "spawn" => wsClient.st = "subscribed"
    /\ (task.proc # "none" \/ task.flush # "none" \/ cs.flushTicker # "nil")
          => /\ wsClient.st \in {"subscribed", "closed"}
             /\ task.proc # "none"
             /\ task.flush # "none"
             /\ cs.flushTicker # "nil"

\* SubscribeToPrices has failed after Connect succeeded: Start has returned its
\* error and nothing was spawned.
C29_Witness ==
    /\ task.main = "failed"
    /\ wsClient.st = "connected"
    /\ task.proc = "none"
    /\ task.flush = "none"

Elem(p) == call[p].data[call[p].i]

ElemKey(p) == PartitionKey(Elem(p).Ticker, Elem(p).Timestamp)

ElemPath(p) == FilePath(Elem(p).Ticker, Elem(p).Timestamp)

\* The element's turn has ended in an error in this step.
ElemFails(p) ==
    /\ Recording(p)
    /\ hist'[call[p].base + call[p].i].st = "err"

\* C31: when os.MkdirAll or os.OpenFile fails for a key that is not
\* registered, the call returns an error: the key is in none of the three
\* maps, its file has taken no row and is not open; and a failure of the file
\* system in such a turn (no old key to clean up) always ends the turn in an
\* error, so nothing is tried a second time.
C31_FailedOpenRegistersNothing ==
    [][ \A p \in DOMAIN call :
           /\ (ElemFails(p) /\ ElemKey(p) \notin writers)
                 => /\ call'[p].pc = "ret" /\ call'[p].err
                    /\ ElemKey(p) \notin writers'
                    /\ ElemKey(p) \notin DOMAIN buffers'
                    /\ ElemKey(p) \notin DOMAIN files'
                    /\ fds'[ElemPath(p)] = fds[ElemPath(p)]
                    /\ ElemPath(p) \in DOMAIN disk' <=> ElemPath(p) \in DOMAIN disk
                    /\ ElemPath(p) \in DOMAIN disk
                          => disk'[ElemPath(p)] = disk[ElemPath(p)]
           /\ (/\ Recording(p) /\ ElemKey(p) \notin writers
               /\ OldKeys(Rec, Elem(p).Ticker, ElemKey(p)) = {}
               /\ faults' > faults)
                 => hist'[call[p].base + call[p].i].st = "err" ]_vars

\* The first Record of a series has returned an error: no key is registered
\* and no file exists.
C31_Witness ==
    /\ Len(hist) = 1
    /\ hist[1].st = "err"
    /\ \E p \in DOMAIN call : call[p].pc = "ret" /\ call[p].op = "Record" /\ call[p].err
    /\ writers = {}
    /\ DOMAIN disk = {}
    /\ faults = 1

\* ------------------------------------------------ a cleanup that fails
\* The old keys of the element's turn whose flush fails in this step: the
\* buffer holds an earlier error, or the file does not take all that is
\* pending.
FailedOld(p) ==
    { k \in OldKeys(Rec, Elem(p).Ticker, ElemKey(p)) :
         \/ buffers[k].err
         \/ Len(IF files[k].path \in DOMAIN disk' THEN disk'[files[k].path] ELSE <<>>)
               - Len(OnDisk(files[k].path)) < Len(buffers[k].pending) }

\* C32: when the flush of an old key fails in the cleanup loop and nothing
\* else of the file system fails in that turn, the turn succeeds: every old
\* key is out of the three maps with its file closed, the new key is
\* registered with its file open, and the row is the last in its buffer.
C32_CleanupBestEffort ==
    [][ \A p \in DOMAIN call :
           (/\ Recording(p) /\ ElemKey(p) \notin writers
            /\ FailedOld(p) # {}
            /\ faults' - faults
                  = Cardinality({ k \in FailedOld(p) : ~buffers[k].err /\ files[k].open }))
              => /\ hist'[call[p].base + call[p].i].st = "ok"
                 /\ \A k \in OldKeys(Rec, Elem(p).Ticker, ElemKey(p)) :
                       /\ k \notin writers'
                       /\ k \notin DOMAIN buffers'
                       /\ k \notin DOMAIN files'
                       /\ files[k].open => fds'[files[k].path] = fds[files[k].path] - 1
                 /\ ElemKey(p) \in writers'
                 /\ files'[ElemKey(p)] = [path |-> ElemPath(p), open |-> TRUE]
                 /\ buffers'[ElemKey(p)].pending # <<>>
                 /\ buffers'[ElemKey(p)].pending[Len(buffers'[ElemKey(p)].pending)]
                       = RecordRow(Elem(p)) ]_vars

\* A RecordBatch of two hours of one series, begun on an empty recorder, has
\* returned nil although the file system has failed once meanwhile: the flush
\* of the first hour's key in the cleanup loop is what failed.
C32_Witness ==
    \E p \in DOMAIN call :
       /\ call[p].op = "RecordBatch" /\ call[p].pc = "ret" /\ ~call[p].err
       /\ Len(call[p].data) = 2
       /\ call[p].data[1].Ticker = call[p].data[2].Ticker
       /\ ~SameHour(call[p].data[1], call[p].data[2])
       /\ call[p].start[1].writers = {}
       /\ call[p].start[1].faults = 0
       /\ faults = 1
       /\ lost = {FilePath(call[p].data[1].Ticker, call[p].data[1].Timestamp)}
       /\ writers = {PartitionKey(call[p].data[2].Ticker, call[p].data[2].Timestamp)}

\* ------------------------------------------------------- no deadlock
\* The goroutine is inside a method of the recorder.
Inside(p) == call[p].pc # "idle"

\* C33: r.mu is held exactly while one goroutine is inside a method of the
\* recorder; a goroutine inside a method is at the call of its loop or of
\* Stop, never at a select or in another step; a goroutine waits for r.mu
\* only outside every method; and whoever is inside can take its next step
\* or return, so that r.mu is given back (unless the process has panicked).
C33_LockNeverStuck ==
    [](/\ mu <=> \E p \in DOMAIN call : Inside(p)
       /\ Cardinality({ p \in DOMAIN call : Inside(p) }) <= 1
       /\ Inside("proc") <=> task.proc = "recording"
       /\ Inside("flush") <=> task.flush = "flushing"
       /\ Inside("main") <=> task.main \in {"flushing", "closing"}
       /\ (mu /\ ~Panicked)
             => ENABLED (RecorderStep \/ ProcRecorded \/ FlushReturn
                           \/ StopFlushed \/ StopClosed))

\* The flush goroutine is inside Flush while processPriceUpdates is about to
\* call Record and Stop is about to call its Flush: both wait for r.mu.
C33_Witness ==
    /\ mu
    /\ call["flush"].pc = "flush"
    /\ task.proc = "record"
    /\ task.main = "flush"

\* ------------------------------------------------------- Stop's end
\* A call of Stop is under way.
InStop == Count(events, "stop") > Count(events, "returnNil")

\* C34: a call of Stop returns, whatever the two goroutines do meanwhile and
\* whether or not wsClient.Close fails (or the process has ended in the panic
\* of a repeated Stop).
C34_StopReturns ==
    InStop ~> (task.main = "stopped" \/ Panicked)

\* Stop has returned after a wsClient.Close that failed, while both goroutines
\* are still at their select.
C34_Witness ==
    /\ task.main = "stopped"
    /\ Count(events, "wsCloseFailed") = 1
    /\ task.proc = "select"
    /\ task.flush = "select"

\* ------------------------------------- the cleanup before a failed open
\* C35: when getWriter fails for a key that is not registered, the cleanup
\* loop has run already: every old key is out of the three maps, its file is
\* closed and, unless its flush failed, holds what was pending; no key of the
\* element's series is registered after the turn.
C35_EvictedBeforeFailedOpen ==
    [][ \A p \in DOMAIN call :
           (ElemFails(p) /\ ElemKey(p) \notin writers)
              => /\ \A k \in OldKeys(Rec, Elem(p).Ticker, ElemKey(p)) :
                       /\ k \notin writers'
                       /\ k \notin DOMAIN buffers'
                       /\ k \notin DOMAIN files'
                       /\ files[k].open => fds'[files[k].path] = fds[files[k].path] - 1
                       /\ k \notin FailedOld(p)
                             => disk'[files[k].path]
                                  = disk[files[k].path] \o buffers[k].pending
                 /\ \A P \in PartitionsOf(Elem(p).Ticker) : P.key \notin writers' ]_vars

\* A RecordBatch of two hours of one series, begun on an empty recorder, has
\* failed at the second hour: the first hour's key is gone and its file holds
\* the header and the row.
C35_Witness ==
    \E p \in DOMAIN call :
       /\ call[p].op = "RecordBatch" /\ call[p].pc = "ret" /\ call[p].err
       /\ Len(call[p].data) = 2 /\ call[p].i = 2
       /\ call[p].data[1].Ticker = call[p].data[2].Ticker
       /\ ~SameHour(call[p].data[1], call[p].data[2])
       /\ call[p].start[1].writers = {}
       /\ DOMAIN call[p].start[1].disk = {}
       /\ writers = {}
       /\ \A path \in AllPaths : fds[path] = 0
       /\ OnDisk(FilePath(call[p].data[1].Ticker, call[p].data[1].Timestamp))
             = <<HeaderRow, RecordRow(call[p].data[1])>>

\* ------------------------------------------- back to an earlier hour
\* C36: when a turn of Record or RecordBatch opens a key that is not
\* registered on a file that exists, the other keys of the series are closed
\* and deleted, the file keeps exactly what it held, and the key's new buffer
\* holds the row and no header, to be appended to the file.
C36_ReopenAppends ==
    [][ \A p \in DOMAIN call :
           (/\ Recording(p) /\ ElemKey(p) \notin writers
            /\ ElemPath(p) \in DOMAIN disk
            /\ hist'[call[p].base + call[p].i].st = "ok")
              => /\ disk'[ElemPath(p)] = disk[ElemPath(p)]
                 /\ buffers'[ElemKey(p)] = [pending |-> <<RecordRow(Elem(p))>>, err |-> FALSE]
                 /\ files'[ElemKey(p)] = [path |-> ElemPath(p), open |-> TRUE]
                 /\ fds'[ElemPath(p)] = fds[ElemPath(p)] + 1
                 /\ \A P \in PartitionsOf(Elem(p).Ticker) :
                       P.key # ElemKey(p) => P.key \notin writers' ]_vars

\* EURUSD was recorded at 14:00, at 15:00 and at 14:00 again, and nothing has
\* failed: the file of hour 14 and its buffer hold the header and the two
\* rows, hour 15 is closed with its header and row in its file.
C36_Witness ==
    LET a == PriceData("EURUSD", Time(18, 14, 0, 0, 0))
        b == PriceData("EURUSD", Time(18, 15, 0, 0, 0))
    IN  /\ Len(hist) = 3
        /\ \A i \in 1..3 : hist[i].st = "ok"
        /\ <<hist[1].row, hist[2].row, hist[3].row>>
              = <<RecordRow(a), RecordRow(b), RecordRow(a)>>
        /\ lost = {}
        /\ writers = {PartitionKey("EURUSD", a.Timestamp)}
        /\ OnDisk(FilePath("EURUSD", a.Timestamp)) \o Pending(PartitionKey("EURUSD", a.Timestamp))
              = <<HeaderRow, RecordRow(a), RecordRow(a)>>
        /\ OnDisk(FilePath("EURUSD", b.Timestamp)) = <<HeaderRow, RecordRow(b)>>
        /\ fds[FilePath("EURUSD", b.Timestamp)] = 0

\* --------------------------------------------- the context that is passed
\* C37: with ctx cancelled, a Record or Flush that meets no failure of the
\* file system (and no buffer that holds an earlier error, no registered
\* file that a failed Close has left closed) returns nil, the
\* Record with its row last in its key's buffer; and a Flush that has
\* returned nil has left nothing pending in any registered buffer.
C37_CtxIgnored ==
    /\ [][ \A p \in DOMAIN call :
              (/\ cs.ctxDone
               /\ call[p].pc # "ret" /\ call'[p].pc = "ret"
               /\ call'[p].op \in {"Record", "Flush"}
               /\ faults' = faults
               /\ \A k \in DOMAIN buffers : ~buffers[k].err
               /\ \A k \in DOMAIN files : files[k].open)
                 => /\ ~call'[p].err
                    /\ call'[p].op = "Record"
                          => /\ ElemKey(p) \in writers'
                             /\ buffers'[ElemKey(p)].pending
                                   [Len(buffers'[ElemKey(p)].pending)]
                                   = RecordRow(Elem(p)) ]_vars
    /\ [](\A p \in DOMAIN call :
              (cs.ctxDone /\ call[p].op = "Flush" /\ call[p].pc = "ret" /\ ~call[p].err)
                 => \A k \in writers : buffers[k].pending = <<>> /\ ~buffers[k].err)

\* An update received after the cancellation has been through Record, and
\* the final Flush of Stop has returned nil with the header and the row in
\* the file: both calls ran with ctx cancelled.
C37_Witness ==
    /\ cs.ctxDone
    /\ task.late
    /\ Len(hist) = 1
    /\ hist[1].st = "ok"
    /\ task.main = "flushing"
    /\ call["main"].pc = "ret"
    /\ ~call["main"].err
    /\ OnDisk(PathOfRow[hist[1].row]) = <<HeaderRow, hist[1].row>>

\* ------------------------------------------------------ the three maps
\* C38: while r.mu is free, r.writers, r.buffers and r.files have the same
\* keys and the file of every key is open.
C38_TriplesWhole ==
    ~mu => /\ DOMAIN buffers = writers
           /\ DOMAIN files = writers
           /\ \A k \in DOMAIN files : files[k].open

====
